---- MODULE Spec2Model ----
(***************************************************************************)
(* A model of the CMS admin shell: the domain store (appReducer), the      *)
(* preferences store (uiReducer with its localStorage effects) and the     *)
(* content-type builder form that dispatches into the domain store.        *)
(***************************************************************************)
EXTENDS Integers, Sequences, FiniteSets, TLC

VARIABLES
    appState,       \* AppState held by AppProvider's useReducer
    uiState,        \* UIState held by UIProvider's useReducer
    localStorage,   \* the two durable keys 'theme' and 'direction'
    effTheme,       \* state.theme the theme effect last ran for (its deps)
    effDirection,   \* state.direction the direction effect last ran for
    uiCrashed,      \* an exception left an effect: React unmounted the tree
    heap,           \* the Field objects, addressed by reference
    isModalOpen,    \* ContentTypeBuilder useState
    editingType,    \* ContentTypeBuilder useState
    formData,       \* ContentTypeBuilder useState
    now,            \* Date.now(), in milliseconds
    loginPage,      \* LoginPage useState: email, password, errors
    showUserMenu,   \* Header useState
    last            \* the step taken last: its kind, its payload, what it found

vars == <<appState, uiState, localStorage, effTheme, effDirection, uiCrashed,
          heap, isModalOpen, editingType, formData, now, loginPage,
          showUserMenu, last>>

prefVars == <<uiState, localStorage, effTheme, effDirection, uiCrashed>>
builderVars == <<heap, isModalOpen, editingType, formData>>
sessionVars == <<loginPage, showUserMenu>>

----
\* Bounds of the model.
T0 == 10            \* Date.now() when the page loads
MaxTicks == 2       \* milliseconds the clock may advance
MaxTypes == 4       \* content types the collection may grow to
MaxEntries == 3     \* entries the collection may grow to
MaxHeap == 8        \* Field objects that may exist
MaxDirty == 1       \* Field objects that may differ from how they were created

----
\* Values.
Themes == {"light", "dark"}
Directions == {"ltr", "rtl"}
Pages == {"dashboard", "content-types", "content-manager", "media", "roles", "settings"}

Absent == "<absent>"      \* localStorage.getItem returns null
Undefined == "undefined"  \* a property an object does not have
NoPayload == "none"

\* What the durable keys may hold when the page loads: nothing, the empty
\* string, a value of the enumeration, or some other string.
StoredThemes == {Absent, "", "light", "dark", "blue"}
StoredDirections == {Absent, "", "ltr", "rtl", "auto"}

NullUser == [id |-> "null", name |-> "", email |-> "", role |-> ""]
NullType == [id |-> "null", name |-> "", singularName |-> "", pluralName |-> "", fields |-> <<>>]

\* Date.prototype.toISOString: a fixed-width digit string, so that string
\* comparison orders timestamps as the clock does.
ToISOString(ms) == <<(ms \div 10) % 10, ms % 10>>

\* a <= b on two ISO strings (JavaScript's string comparison).
IsoLeq(a, b) == \/ a[1] < b[1]
                \/ a[1] = b[1] /\ a[2] <= b[2]

----
\* The reducers.

RECURSIVE MapSeq(_, _, _)
\* array.map(x => x.id === payload.id ? payload : x)
MapSeq(s, id, payload) ==
    IF s = <<>> THEN <<>>
    ELSE <<IF Head(s).id = id THEN payload ELSE Head(s)>> \o MapSeq(Tail(s), id, payload)

RECURSIVE FilterOutId(_, _)
\* array.filter(x => x.id !== id)
FilterOutId(s, id) ==
    IF s = <<>> THEN <<>>
    ELSE IF Head(s).id # id THEN <<Head(s)>> \o FilterOutId(Tail(s), id)
         ELSE FilterOutId(Tail(s), id)

\* A variant of the update that moves the replaced element to the end.
UpdateByIdMovesLast(s, payload) ==
    IF \E i \in 1..Len(s) : s[i].id = payload.id
    THEN Append(FilterOutId(s, payload.id), payload)
    ELSE s

\* A variant of the update that inserts the payload when no element matches.
UpdateByIdUpserts(s, payload) ==
    IF \E i \in 1..Len(s) : s[i].id = payload.id
    THEN MapSeq(s, payload.id, payload)
    ELSE Append(s, payload)

\* contentTypes.map(ct => ct.id === action.payload.id ? action.payload : ct)
UpdateTypeById(s, payload) == MapSeq(s, payload.id, payload)

\* entries.map(e => e.id === action.payload.id ? action.payload : e)
UpdateEntryById(s, payload) == MapSeq(s, payload.id, payload)

\* A variant of the removal that drops the first match only.
RemoveFirstById(s, id) ==
    IF \E i \in 1..Len(s) : s[i].id = id
    THEN LET k == CHOOSE i \in 1..Len(s) :
                    s[i].id = id /\ \A j \in 1..(i - 1) : s[j].id # id
         IN SubSeq(s, 1, k - 1) \o SubSeq(s, k + 1, Len(s))
    ELSE s

\* collection.filter(x => x.id !== action.payload)
RemoveById(s, id) == FilterOutId(s, id)

appReducer(state, action) ==
    CASE action.type = "LOGIN" ->
            [state EXCEPT !.user = action.payload, !.isAuthenticated = TRUE]
      [] action.type = "LOGOUT" ->
            [state EXCEPT !.user = NullUser, !.isAuthenticated = FALSE]
      [] action.type = "SET_CONTENT_TYPES" ->
            [state EXCEPT !.contentTypes = action.payload]
      [] action.type = "ADD_CONTENT_TYPE" ->
            [state EXCEPT !.contentTypes = Append(@, action.payload)]
      [] action.type = "UPDATE_CONTENT_TYPE" ->
            [state EXCEPT !.contentTypes = UpdateTypeById(@, action.payload)]
      [] action.type = "DELETE_CONTENT_TYPE" ->
            [state EXCEPT !.contentTypes = RemoveById(@, action.payload)]
      [] action.type = "SET_ENTRIES" ->
            [state EXCEPT !.entries = action.payload]
      [] action.type = "ADD_ENTRY" ->
            [state EXCEPT !.entries = Append(@, action.payload)]
      [] action.type = "UPDATE_ENTRY" ->
            [state EXCEPT !.entries = UpdateEntryById(@, action.payload)]
      [] action.type = "DELETE_ENTRY" ->
            [state EXCEPT !.entries = RemoveById(@, action.payload)]
      [] OTHER -> state

uiReducer(state, action) ==
    CASE action.type = "TOGGE_TLHEME" ->
            [state EXCEPT !.theme = IF @ = "light" THEN "dark" ELSE "light"]
      [] action.type = "SET_THEME" ->
            [state EXCEPT !.theme = action.payload]
      [] action.type = "TOGGLE_DIRECTION" ->
            [state EXCEPT !.direction = IF @ = "ltr" THEN "rtl" ELSE "ltr"]
      [] action.type = "SET_DIRECTION" ->
            [state EXCEPT !.direction = action.payload]
      [] action.type = "TOGGLE_SIDEBAR" ->
            [state EXCEPT !.sidebarOpen = ~@]
      [] action.type = "SET_LOADING" ->
            [state EXCEPT !.loading = action.payload]
      [] action.type = "SET_ERROR" ->
            [state EXCEPT !.error = action.payload]
      [] action.type = "SET_PAGE" ->
            [state EXCEPT !.currentPage = action.payload]
      [] OTHER -> state

----
\* Initial states.

\* The six Field objects of the two seeded content types.
SeedHeap == <<
    [id |-> "1", name |-> "title", type |-> "text", required |-> "true"],
    [id |-> "2", name |-> "content", type |-> "textarea", required |-> "true"],
    [id |-> "3", name |-> "published", type |-> "boolean", required |-> Undefined],
    [id |-> "1", name |-> "name", type |-> "text", required |-> "true"],
    [id |-> "2", name |-> "price", type |-> "number", required |-> "true"],
    [id |-> "3", name |-> "description", type |-> "textarea", required |-> Undefined] >>

SeedTypes == <<
    [id |-> "1", name |-> "Article", singularName |-> "article",
     pluralName |-> "articles", fields |-> <<1, 2, 3>>],
    [id |-> "2", name |-> "Product", singularName |-> "product",
     pluralName |-> "products", fields |-> <<4, 5, 6>>] >>

SeedEntries(t) == <<
    [id |-> "1", contentType |-> "article", status |-> "published",
     data |-> [title |-> "Getting Started", content |-> "Welcome to our CMS",
               published |-> "true"],
     createdAt |-> ToISOString(t), updatedAt |-> ToISOString(t)],
    [id |-> "2", contentType |-> "article", status |-> "draft",
     data |-> [title |-> "Draft Article", content |-> "Work in progress",
               published |-> "false"],
     createdAt |-> ToISOString(t), updatedAt |-> ToISOString(t)] >>

InitialAppState(t) ==
    [user |-> NullUser, isAuthenticated |-> FALSE,
     contentTypes |-> SeedTypes, entries |-> SeedEntries(t)]

\* (localStorage.getItem(key) as T) || fallback
GetItemOr(stored, fallback) == IF stored \in {Absent, ""} THEN fallback ELSE stored

InitialUIState(ls) ==
    [theme |-> GetItemOr(ls.theme, "light"),
     direction |-> GetItemOr(ls.direction, "ltr"),
     sidebarOpen |-> TRUE, loading |-> FALSE, error |-> "null",
     currentPage |-> "dashboard"]

EmptyForm == [id |-> Undefined, name |-> "", singularName |-> "", pluralName |-> "",
              fields |-> <<>>]

NotRun == "<not run>"

\* LoginPage: useState(''), useState(''), useState({})
EmptyLogin == [email |-> "", password |-> "",
               errors |-> [email |-> Undefined, password |-> Undefined]]

Init ==
    /\ now = T0
    /\ localStorage \in [theme : StoredThemes, direction : StoredDirections]
    /\ appState = InitialAppState(now)
    /\ uiState = InitialUIState(localStorage)
    /\ effTheme = NotRun
    /\ effDirection = NotRun
    /\ uiCrashed = FALSE
    /\ heap = SeedHeap
    /\ isModalOpen = FALSE
    /\ editingType = NullType
    /\ formData = EmptyForm
    /\ loginPage = EmptyLogin
    /\ showUserMenu = FALSE
    /\ last = [type |-> "init", payload |-> NoPayload, found |-> FALSE, result |-> Undefined]

\* The first page load: nothing is stored yet.
InitFresh ==
    /\ Init
    /\ localStorage = [theme |-> Absent, direction |-> Absent]

----
\* The preferences store.

\* What dispatch hands back to its caller: React.Dispatch returns void.
DispatchReturn == Undefined

Step(type, payload, found) ==
    last' = [type |-> type, payload |-> payload, found |-> found,
             result |-> DispatchReturn]

\* uiDispatch(action)
UIDispatch(action) ==
    /\ ~uiCrashed
    /\ uiState' = uiReducer(uiState, action)
    /\ Step(action.type, action.payload, FALSE)
    /\ UNCHANGED <<appState, localStorage, effTheme, effDirection, uiCrashed,
                   builderVars, now, sessionVars>>

\* Header: the three buttons.
HeaderToggle == \E t \in {"TOGGLE_SIDEBAR", "TOGGLE_THEME", "TOGGLE_DIRECTION"} :
    UIDispatch([type |-> t, payload |-> NoPayload])

\* Sidebar: the ids of menuItems, in order.
menuItems == <<"dashboard", "content-types", "content-manager", "media", "roles", "settings">>

\* Sidebar: a menu item is clicked; the sidebar renders nothing when closed.
SidebarSetPage ==
    /\ uiState.sidebarOpen
    /\ \E i \in 1..Len(menuItems) : UIDispatch([type |-> "SET_PAGE", payload |-> menuItems[i]])

\* Sidebar: the menu items drawn with the 'bg-blue-600' class.
Highlighted(state) == {i \in 1..Len(menuItems) : state.currentPage = menuItems[i]}

\* A variant of renderPage without the 'media' case.
renderPageNoMedia(state) ==
    CASE state.currentPage = "dashboard" -> "Dashboard"
      [] state.currentPage = "content-types" -> "ContentTypeBuilder"
      [] state.currentPage = "settings" -> "Settings"
      [] OTHER -> "Dashboard"

\* MainLayout.renderPage: the component rendered in <main>.
renderPage(state) ==
    CASE state.currentPage = "dashboard" -> "Dashboard"
      [] state.currentPage = "content-types" -> "ContentTypeBuilder"
      [] state.currentPage = "media" -> "MediaLibrary"
      [] state.currentPage = "settings" -> "Settings"
      [] OTHER -> "Dashboard"

SetTheme == \E t \in Themes : UIDispatch([type |-> "SET_THEME", payload |-> t])

SetDirection == \E d \in Directions : UIDispatch([type |-> "SET_DIRECTION", payload |-> d])

\* A variant of the write that stores nothing.
PersistThemeDropped(ls, theme) == ls

\* localStorage.setItem('theme', state.theme)
PersistTheme(ls, theme) == [ls EXCEPT !.theme = theme]

\* localStorage.setItem('direction', state.direction)
PersistDirection(ls, direction) == [ls EXCEPT !.direction = direction]

\* useEffect(..., [state.theme]): runs after the first render and after every
\* render in which state.theme differs from the one it last ran for.
ThemeEffect ==
    /\ ~uiCrashed
    /\ effTheme # uiState.theme
    /\ effTheme' = uiState.theme
    /\ localStorage' = PersistTheme(localStorage, uiState.theme)
    /\ Step("themeEffect", uiState.theme, FALSE)
    /\ UNCHANGED <<appState, uiState, effDirection, uiCrashed, builderVars, now, sessionVars>>

\* The same effect when localStorage.setItem throws (quota exceeded, storage
\* disabled): nothing catches the exception, it leaves the effect and React
\* unmounts the tree.
ThemeEffectThrows ==
    /\ ~uiCrashed
    /\ effTheme # uiState.theme
    /\ effTheme' = uiState.theme
    /\ uiCrashed' = TRUE
    /\ Step("themeEffectThrows", uiState.theme, FALSE)
    /\ UNCHANGED <<appState, uiState, localStorage, effDirection, builderVars, now, sessionVars>>

DirectionEffect ==
    /\ ~uiCrashed
    /\ effDirection # uiState.direction
    /\ effDirection' = uiState.direction
    /\ localStorage' = PersistDirection(localStorage, uiState.direction)
    /\ Step("directionEffect", uiState.direction, FALSE)
    /\ UNCHANGED <<appState, uiState, effTheme, uiCrashed, builderVars, now, sessionVars>>

DirectionEffectThrows ==
    /\ ~uiCrashed
    /\ effDirection # uiState.direction
    /\ effDirection' = uiState.direction
    /\ uiCrashed' = TRUE
    /\ Step("directionEffectThrows", uiState.direction, FALSE)
    /\ UNCHANGED <<appState, uiState, localStorage, effTheme, builderVars, now, sessionVars>>

\* The page is loaded again: both providers are constructed anew, the
\* durable keys are what the last session left.
Restart ==
    /\ uiState' = InitialUIState(localStorage)
    /\ appState' = InitialAppState(now)
    /\ effTheme' = NotRun
    /\ effDirection' = NotRun
    /\ uiCrashed' = FALSE
    /\ heap' = SeedHeap
    /\ isModalOpen' = FALSE
    /\ editingType' = NullType
    /\ formData' = EmptyForm
    /\ Step("restart", [theme |-> uiState.theme, direction |-> uiState.direction],
            effTheme = uiState.theme /\ effDirection = uiState.direction)
    /\ loginPage' = EmptyLogin
    /\ showUserMenu' = FALSE
    /\ UNCHANGED <<localStorage, now>>

----
\* The domain store, as any consumer of AppContext may dispatch into it.

HasId(s, id) == \E i \in 1..Len(s) : s[i].id = id

\* appDispatch(action); found records whether the id the action names was in
\* the collection it addresses.
AppDispatch(action, found) ==
    /\ ~uiCrashed
    /\ appState' = appReducer(appState, action)
    /\ Step(action.type, action.payload, found)
    /\ UNCHANGED <<prefVars, builderVars, now, sessionVars>>

SchemaIds == {"1", "2", "3"}
SchemaNames == {"Blog", "Page"}

\* ContentType values a caller may pass.
SchemaPayloads ==
    [id : SchemaIds, name : SchemaNames, singularName : {"blog"},
     pluralName : {"blogs"}, fields : {<<>>}]

EntryIds == {"2", "3"}
Statuses == {"draft", "published"}
\* A ContentEntry value: its data mapping and its two timestamps.
EntryShapes ==
    {[data |-> [title |-> "Hello"], createdAt |-> T0, updatedAt |-> T0],
     [data |-> [title |-> "Hello", content |-> "Body", published |-> "true"],
      createdAt |-> T0, updatedAt |-> T0 + 1],
     [data |-> [title |-> "Hello"], createdAt |-> T0 + 1, updatedAt |-> T0]}

\* ContentEntry values a caller may pass.
EntryPayloads ==
    {[id |-> id, contentType |-> "article", status |-> st, data |-> sh.data,
      createdAt |-> ToISOString(sh.createdAt), updatedAt |-> ToISOString(sh.updatedAt)] :
        id \in EntryIds, st \in Statuses, sh \in EntryShapes}

DispatchLogin ==
    \E email \in {"admin@example.com"} :
        AppDispatch([type |-> "LOGIN",
                     payload |-> [id |-> "1", name |-> "Admin User", email |-> email,
                                  role |-> "Administrator"]], FALSE)

DispatchLogout == AppDispatch([type |-> "LOGOUT", payload |-> NoPayload], FALSE)

DispatchSetContentTypes ==
    \E p \in {<<>>} \cup {<<x>> : x \in SchemaPayloads} :
        AppDispatch([type |-> "SET_CONTENT_TYPES", payload |-> p], FALSE)

DispatchAddContentType ==
    /\ Len(appState.contentTypes) < MaxTypes
    /\ \E p \in SchemaPayloads :
        AppDispatch([type |-> "ADD_CONTENT_TYPE", payload |-> p],
                    HasId(appState.contentTypes, p.id))

DispatchUpdateContentType ==
    \E p \in SchemaPayloads :
        AppDispatch([type |-> "UPDATE_CONTENT_TYPE", payload |-> p],
                    HasId(appState.contentTypes, p.id))

DispatchDeleteContentType ==
    \E id \in SchemaIds :
        AppDispatch([type |-> "DELETE_CONTENT_TYPE", payload |-> id],
                    HasId(appState.contentTypes, id))

DispatchSetEntries ==
    \E p \in {<<>>} \cup {<<x>> : x \in EntryPayloads} \cup {<<x, x>> : x \in EntryPayloads} :
        AppDispatch([type |-> "SET_ENTRIES", payload |-> p], FALSE)

DispatchAddEntry ==
    /\ Len(appState.entries) < MaxEntries
    /\ \E p \in EntryPayloads :
        AppDispatch([type |-> "ADD_ENTRY", payload |-> p], HasId(appState.entries, p.id))

DispatchUpdateEntry ==
    \E p \in EntryPayloads :
        AppDispatch([type |-> "UPDATE_ENTRY", payload |-> p], HasId(appState.entries, p.id))

DispatchDeleteEntry ==
    \E id \in EntryIds \cup {"1"} :
        AppDispatch([type |-> "DELETE_ENTRY", payload |-> id], HasId(appState.entries, id))

RECURSIVE FilterSeq(_, _, _)
\* array.filter(e => (e.status === status) === keep)
FilterSeq(s, status, keep) ==
    IF s = <<>> THEN <<>>
    ELSE IF (Head(s).status = status) = keep
         THEN <<Head(s)>> \o FilterSeq(Tail(s), status, keep)
         ELSE FilterSeq(Tail(s), status, keep)

\* A variant of the filter with the comparison inverted.
FilterByStatusInverted(s, status) == FilterSeq(s, status, FALSE)

\* Dashboard: state.entries.filter(e => e.status === status)
FilterByStatus(s, status) == FilterSeq(s, status, TRUE)

----
\* The content-type builder.

FormNames == {"Blog"}
FieldNames == {"", "title"}
FieldTypes == {"text", "textarea", "number", "boolean", "select"}

\* Time passes.
Tick ==
    /\ now < T0 + MaxTicks
    /\ now' = now + 1
    /\ Step("tick", NoPayload, FALSE)
    /\ UNCHANGED <<appState, prefVars, builderVars, sessionVars>>

\* The 'New Content Type' button.
OpenNew ==
    /\ ~uiCrashed /\ ~isModalOpen
    /\ isModalOpen' = TRUE
    /\ Step("openNew", NoPayload, FALSE)
    /\ UNCHANGED <<appState, prefVars, heap, editingType, formData, now, sessionVars>>

\* The edit button of a content-type card.
OpenEdit ==
    /\ ~uiCrashed /\ ~isModalOpen
    /\ \E i \in 1..Len(appState.contentTypes) :
        /\ editingType' = appState.contentTypes[i]
        /\ formData' = appState.contentTypes[i]
        /\ Step("openEdit", appState.contentTypes[i].id, TRUE)
    /\ isModalOpen' = TRUE
    /\ UNCHANGED <<appState, prefVars, heap, now, sessionVars>>

\* Modal onClose and the Cancel button.
CloseModal ==
    /\ ~uiCrashed /\ isModalOpen
    /\ isModalOpen' = FALSE
    /\ Step("closeModal", NoPayload, FALSE)
    /\ UNCHANGED <<appState, prefVars, heap, editingType, formData, now, sessionVars>>

\* The Name, Singular Name and Plural Name inputs.
SetFormText ==
    /\ ~uiCrashed /\ isModalOpen
    /\ \E v \in FormNames :
        \/ formData' = [formData EXCEPT !.name = v]
        \/ formData' = [formData EXCEPT !.singularName = v]
        \/ formData' = [formData EXCEPT !.pluralName = v]
    /\ Step("setFormText", NoPayload, FALSE)
    /\ UNCHANGED <<appState, prefVars, heap, isModalOpen, editingType, now, sessionVars>>

NewField(t) == [id |-> ToString(t), name |-> "", type |-> "text", required |-> Undefined]

addField ==
    /\ ~uiCrashed /\ isModalOpen
    /\ Len(heap) < MaxHeap
    /\ heap' = Append(heap, NewField(now))
    /\ formData' = [formData EXCEPT !.fields = Append(@, Len(heap) + 1)]
    /\ Step("addField", NoPayload, FALSE)
    /\ UNCHANGED <<appState, prefVars, isModalOpen, editingType, now, sessionVars>>

\* The Field objects that no longer are as they were created.
Dirty(h) ==
    {i \in 1..Len(h) :
        h[i] # (IF i <= Len(SeedHeap) THEN SeedHeap[i]
                ELSE [h[i] EXCEPT !.name = "", !.type = "text"])}

\* newFields = [...formData.fields]; newFields[idx].name = value: the array is
\* copied, the Field object it refers to is written in place.
SetFieldName ==
    /\ ~uiCrashed /\ isModalOpen
    /\ \E idx \in 1..Len(formData.fields), v \in FieldNames :
        heap' = [heap EXCEPT ![formData.fields[idx]].name = v]
    /\ Cardinality(Dirty(heap')) <= MaxDirty
    /\ Step("setFieldName", NoPayload, FALSE)
    /\ UNCHANGED <<appState, prefVars, isModalOpen, editingType, formData, now, sessionVars>>

SetFieldType ==
    /\ ~uiCrashed /\ isModalOpen
    /\ \E idx \in 1..Len(formData.fields), v \in FieldTypes :
        heap' = [heap EXCEPT ![formData.fields[idx]].type = v]
    /\ Cardinality(Dirty(heap')) <= MaxDirty
    /\ Step("setFieldType", NoPayload, FALSE)
    /\ UNCHANGED <<appState, prefVars, isModalOpen, editingType, formData, now, sessionVars>>

\* { ...editingType, ...formData }
UpdatePayload(editing, form) ==
    [id |-> IF form.id # Undefined THEN form.id ELSE editing.id,
     name |-> form.name, singularName |-> form.singularName,
     pluralName |-> form.pluralName, fields |-> form.fields]

\* { id: Date.now().toString(), ...formData }
NewId(t) == ToString(t)

AddPayload(t, form) ==
    [id |-> IF form.id # Undefined THEN form.id ELSE NewId(t),
     name |-> form.name, singularName |-> form.singularName,
     pluralName |-> form.pluralName, fields |-> form.fields]

SaveAction(editing, form, t) ==
    IF editing # NullType
    THEN [type |-> "UPDATE_CONTENT_TYPE", payload |-> UpdatePayload(editing, form)]
    ELSE [type |-> "ADD_CONTENT_TYPE", payload |-> AddPayload(t, form)]

handleSave ==
    /\ ~uiCrashed /\ isModalOpen
    /\ editingType = NullType => Len(appState.contentTypes) < MaxTypes
    /\ LET action == SaveAction(editingType, formData, now) IN
        /\ appState' = appReducer(appState, action)
        /\ Step(action.type, action.payload,
                HasId(appState.contentTypes, action.payload.id))
    /\ isModalOpen' = FALSE
    /\ editingType' = NullType
    /\ formData' = EmptyForm
    /\ UNCHANGED <<prefVars, heap, now, sessionVars>>

\* A content type as a reader of the store sees it: its fields array with the
\* Field objects it refers to.
ViewType(t, h) == [t EXCEPT !.fields = [i \in 1..Len(t.fields) |-> h[t.fields[i]]]]

\* state.contentTypes as a reader of the store sees it.
ViewTypes(state, h) ==
    [i \in 1..Len(state.contentTypes) |-> ViewType(state.contentTypes[i], h)]

----
\* The login page and the header's user menu.

Emails == {"", "admin@example.com"}
Passwords == {"", "secret"}

\* The Email input of LoginPage, rendered while nobody is signed in.
SetEmail ==
    /\ ~uiCrashed /\ ~appState.isAuthenticated
    /\ \E v \in Emails : loginPage' = [loginPage EXCEPT !.email = v]
    /\ Step("setEmail", NoPayload, FALSE)
    /\ UNCHANGED <<appState, prefVars, builderVars, now, showUserMenu>>

\* The Password input of LoginPage.
SetPassword ==
    /\ ~uiCrashed /\ ~appState.isAuthenticated
    /\ \E v \in Passwords : loginPage' = [loginPage EXCEPT !.password = v]
    /\ Step("setPassword", NoPayload, FALSE)
    /\ UNCHANGED <<appState, prefVars, builderVars, now, showUserMenu>>

\* A variant of the check that looks at the email only.
LoginErrorsEmailOnly(email, password) ==
    [email |-> IF email = "" THEN "Email is required" ELSE Undefined,
     password |-> Undefined]

\* if (!email) newErrors.email = ...; if (!password) newErrors.password = ...
LoginErrors(email, password) ==
    [email |-> IF email = "" THEN "Email is required" ELSE Undefined,
     password |-> IF password = "" THEN "Password is required" ELSE Undefined]

\* Object.keys(newErrors).length > 0
HasErrors(errors) == errors.email # Undefined \/ errors.password # Undefined

\* The user handed to onLogin.
LoginUser(email) ==
    [id |-> "1", name |-> "Admin User", email |-> email, role |-> "Administrator"]

\* LoginPage.handleSubmit; on success App dispatches LOGIN and renders the
\* layout in place of LoginPage, whose state is dropped.
handleSubmit ==
    /\ ~uiCrashed /\ ~appState.isAuthenticated
    /\ LET newErrors == LoginErrors(loginPage.email, loginPage.password) IN
        IF HasErrors(newErrors)
        THEN /\ loginPage' = [loginPage EXCEPT !.errors = newErrors]
             /\ Step("handleSubmit", newErrors, FALSE)
             /\ UNCHANGED appState
        ELSE /\ appState' = appReducer(appState, [type |-> "LOGIN",
                                                  payload |-> LoginUser(loginPage.email)])
             /\ loginPage' = EmptyLogin
             /\ Step("LOGIN", LoginUser(loginPage.email), TRUE)
    /\ UNCHANGED <<prefVars, builderVars, now, showUserMenu>>

\* Header: the avatar button, rendered while somebody is signed in.
ToggleUserMenu ==
    /\ ~uiCrashed /\ appState.isAuthenticated
    /\ showUserMenu' = ~showUserMenu
    /\ Step("toggleUserMenu", NoPayload, FALSE)
    /\ UNCHANGED <<appState, prefVars, builderVars, now, loginPage>>

\* Header: Sign Out in the user menu.
SignOut ==
    /\ ~uiCrashed /\ appState.isAuthenticated /\ showUserMenu
    /\ appState' = appReducer(appState, [type |-> "LOGOUT", payload |-> NoPayload])
    /\ showUserMenu' = FALSE
    /\ Step("LOGOUT", NoPayload, FALSE)
    /\ UNCHANGED <<prefVars, builderVars, now, loginPage>>

----
\* Specifications.

\* Define-schema operations only: the builder opened with 'New Content Type'.
NextDefine ==
    \/ Tick
    \/ OpenNew
    \/ CloseModal
    \/ SetFormText
    \/ handleSave

SpecDefine == InitFresh /\ [][NextDefine]_vars

\* The schema collection: every schema action of the reducer, and the
\* builder's edit form.
NextSchemas ==
    \/ DispatchSetContentTypes
    \/ DispatchAddContentType
    \/ DispatchUpdateContentType
    \/ DispatchDeleteContentType
    \/ DispatchLogin
    \/ DispatchLogout

SpecSchemas == InitFresh /\ [][NextSchemas]_vars

\* Updates of the schema collection, by a direct dispatch and by the
\* builder's edit form.
NextEdit ==
    \/ DispatchUpdateContentType
    \/ DispatchDeleteContentType
    \/ DispatchLogin
    \/ DispatchLogout
    \/ OpenEdit
    \/ CloseModal
    \/ SetFormText
    \/ handleSave

SpecEdit == InitFresh /\ [][NextEdit]_vars

\* The entry collection: every entry action of the reducer.
NextEntries ==
    \/ DispatchSetEntries
    \/ DispatchAddEntry
    \/ DispatchUpdateEntry
    \/ DispatchDeleteEntry

SpecEntries == InitFresh /\ [][NextEntries]_vars

\* Deletions on both collections.
NextDelete ==
    \/ DispatchDeleteContentType
    \/ DispatchSetEntries
    \/ DispatchDeleteEntry

SpecDelete == InitFresh /\ [][NextDelete]_vars

\* The new-content-type form with its field list, filled in and saved.
NextBuilder ==
    \/ Tick
    \/ OpenNew
    \/ CloseModal
    \/ SetFormText
    \/ addField
    \/ handleSave

\* Both forms, opened, closed and saved in any order.
NextReopen ==
    \/ OpenNew
    \/ OpenEdit
    \/ CloseModal
    \/ SetFormText
    \/ handleSave

SpecReopen == InitFresh /\ [][NextReopen]_vars

SpecBuilder == InitFresh /\ [][NextBuilder]_vars

\* An edit form that is filled in and closed, never saved.
NextForm ==
    \/ OpenEdit
    \/ CloseModal
    \/ SetFormText
    \/ addField
    \/ SetFieldName
    \/ SetFieldType

SpecForm == InitFresh /\ [][NextForm]_vars

\* Signing in and out, with deletions changing the collections meanwhile.
NextLogin ==
    \/ SetEmail
    \/ SetPassword
    \/ handleSubmit
    \/ ToggleUserMenu
    \/ SignOut
    \/ DispatchDeleteContentType
    \/ DispatchDeleteEntry

SpecLogin == InitFresh /\ [][NextLogin]_vars

\* The preferences store alone.
NextPrefs ==
    \/ HeaderToggle
    \/ SidebarSetPage
    \/ SetTheme
    \/ SetDirection
    \/ ThemeEffect
    \/ ThemeEffectThrows
    \/ DirectionEffect
    \/ DirectionEffectThrows
    \/ Restart

SpecPrefs == Init /\ [][NextPrefs]_vars

----
\* Properties.

Types == appState.contentTypes
Entries == appState.entries

\* C1: after any sequence of define-schema operations on the seeded
\* collection, no two schemas of the collection have the same id.
C1_SchemaIdsUnique ==
    \A i, j \in 1..Len(Types) : i # j => Types[i].id # Types[j].id

\* Each define-schema operation appends exactly one schema.
DefineGrowsByOne ==
    [][last'.type = "ADD_CONTENT_TYPE" =>
        /\ Len(appState'.contentTypes) = Len(Types) + 1
        /\ SubSeq(appState'.contentTypes, 1, Len(Types)) = Types]_vars

C3_UpdateReplacesInPlace ==
    [][(last'.type = "UPDATE_CONTENT_TYPE" /\ HasId(Types, last'.payload.id)) =>
        /\ Len(appState'.contentTypes) = Len(Types)
        /\ \A i \in 1..Len(Types) :
            appState'.contentTypes[i] =
                IF Types[i].id = last'.payload.id THEN last'.payload ELSE Types[i]
        /\ appState'.entries = Entries
        /\ appState'.user = appState.user
        /\ appState'.isAuthenticated = appState.isAuthenticated]_vars

C3_Witness ==
    /\ last.type = "UPDATE_CONTENT_TYPE"
    /\ last.found
    /\ appState.isAuthenticated
    /\ Len(Types) = 2
    /\ Types[1] = last.payload
    /\ Types[1].name = "Blog"
    /\ Types[2].name = "Product"

DeleteType(state, id) == appReducer(state, [type |-> "DELETE_CONTENT_TYPE", payload |-> id])
DeleteEntry(state, id) == appReducer(state, [type |-> "DELETE_ENTRY", payload |-> id])

\* C4: deleting a schema or an entry twice gives the state that deleting it
\* once gives, and deleting an id that is not in the collection changes
\* nothing.
C4_DeleteIdempotent ==
    /\ \A id \in SchemaIds :
        /\ DeleteType(DeleteType(appState, id), id) = DeleteType(appState, id)
        /\ ~HasId(DeleteType(appState, id).contentTypes, id)
        /\ ~HasId(Types, id) => DeleteType(appState, id) = appState
    /\ \A id \in EntryIds \cup {"1"} :
        /\ DeleteEntry(DeleteEntry(appState, id), id) = DeleteEntry(appState, id)
        /\ ~HasId(DeleteEntry(appState, id).entries, id)
        /\ ~HasId(Entries, id) => DeleteEntry(appState, id) = appState

C4_Witness ==
    /\ last.type = "DELETE_ENTRY"
    /\ last.payload = "2"
    /\ ~last.found
    /\ Len(Entries) = 1
    /\ ~HasId(Types, "1")

\* C5: every entry of the collection has updatedAt >= createdAt.
C5_UpdatedNotBeforeCreated ==
    \A i \in 1..Len(Entries) : IsoLeq(Entries[i].createdAt, Entries[i].updatedAt)

\* C6: an update of an existing entry merges the patch into the entry's data
\* (patch keys overwrite, the other keys stay), keeps id, contentType and
\* createdAt, and refreshes updatedAt; for an absent id it signals NotFound.
C6_UpdateEntryMerges ==
    [][last'.type = "UPDATE_ENTRY" =>
        LET p == last'.payload IN
        /\ ~HasId(Entries, p.id) => last'.result = "NotFound"
        /\ \A i \in 1..Len(Entries) :
            Entries[i].id = p.id =>
                LET e == Entries[i]
                    n == appState'.entries[i]
                IN /\ n.id = e.id
                   /\ n.contentType = e.contentType
                   /\ n.createdAt = e.createdAt
                   /\ n.updatedAt = ToISOString(now)
                   /\ DOMAIN n.data = DOMAIN e.data \cup DOMAIN p.data
                   /\ \A k \in DOMAIN p.data : n.data[k] = p.data[k]
                   /\ \A k \in DOMAIN e.data \ DOMAIN p.data : n.data[k] = e.data[k]]_vars

WithStatus(status) == {i \in 1..Len(Entries) : Entries[i].status = status}

\* The k-th smallest element of a set of positions.
Kth(S, k) == CHOOSE i \in S : Cardinality({j \in S : j <= i}) = k

\* The list is the stored entries of that status, in collection order.
ListsExactly(list, status) ==
    /\ Len(list) = Cardinality(WithStatus(status))
    /\ \A k \in 1..Len(list) : list[k] = Entries[Kth(WithStatus(status), k)]

\* C7: the draft list is exactly the stored entries whose status is 'draft',
\* in collection order, holds no entry whose status is 'published', and with
\* the published list it partitions the collection.
C7_DraftListExact ==
    LET drafts == FilterByStatus(Entries, "draft")
        published == FilterByStatus(Entries, "published")
    IN /\ \A k \in 1..Len(drafts) : drafts[k].status # "published"
       /\ ListsExactly(drafts, "draft")
       /\ ListsExactly(published, "published")
       /\ WithStatus("draft") \cup WithStatus("published") = 1..Len(Entries)
       /\ Len(drafts) + Len(published) = Len(Entries)

C7_Witness ==
    /\ last.type = "UPDATE_ENTRY"
    /\ last.found
    /\ last.payload.status = "draft"
    /\ Len(Entries) = 3
    /\ Entries[1].status = "published"
    /\ Entries[2].status = "draft"
    /\ Entries[3].status = "draft"
    /\ Entries[3] = last.payload

EffectsRan == effTheme = uiState.theme /\ effDirection = uiState.direction

Persisted ==
    /\ localStorage.theme = uiState.theme
    /\ localStorage.direction = uiState.direction
    /\ InitialUIState(localStorage).theme = uiState.theme
    /\ InitialUIState(localStorage).direction = uiState.direction

C9_PreferencesInEnumeration ==
    /\ uiState.theme \in Themes
    /\ uiState.direction \in Directions

\* C10: a failed write to durable storage is swallowed: no error leaves the
\* store and the store keeps working with the newly set value.
C10_WriteFailureSwallowed ==
    last.type \in {"themeEffectThrows", "directionEffectThrows"} =>
        /\ ~uiCrashed
        /\ ENABLED SetTheme

Flip(v, a, b) == IF v = a THEN b ELSE a

\* C11: each toggle the header dispatches flips exactly its own field
\* (light<->dark, ltr<->rtl, open<->closed) and leaves the other preference
\* fields as they were.
C11_ToggleFlipsOwnField ==
    [][/\ (last'.type = "TOGGLE_THEME" /\ uiState.theme \in Themes) =>
            uiState' = [uiState EXCEPT !.theme = Flip(@, "light", "dark")]
       /\ (last'.type = "TOGGLE_DIRECTION" /\ uiState.direction \in Directions) =>
            uiState' = [uiState EXCEPT !.direction = Flip(@, "ltr", "rtl")]
       /\ last'.type = "TOGGLE_SIDEBAR" =>
            uiState' = [uiState EXCEPT !.sidebarOpen = ~@]]_vars

\* The page a menu id is expected to render.
PageOf(id) ==
    CASE id = "dashboard" -> "Dashboard"
      [] id = "content-types" -> "ContentTypeBuilder"
      [] id = "media" -> "MediaLibrary"
      [] id = "settings" -> "Settings"
      [] id = "content-manager" -> "Dashboard"
      [] id = "roles" -> "Dashboard"

\* C16: SET_PAGE sets currentPage to the payload and changes no other
\* preference field; every menu id renders exactly one page ('dashboard',
\* 'content-types', 'media' and 'settings' their own, 'content-manager' and
\* 'roles' the Dashboard); the sidebar highlights exactly the menu item whose
\* id is currentPage.
C16_PageSelection ==
    /\ [](/\ uiState.currentPage \in Pages
          /\ renderPage(uiState) = PageOf(uiState.currentPage)
          /\ Cardinality(Highlighted(uiState)) = 1
          /\ \A i \in Highlighted(uiState) : menuItems[i] = uiState.currentPage)
    /\ [][last'.type = "SET_PAGE" =>
            uiState' = [uiState EXCEPT !.currentPage = last'.payload]]_vars

C16_Witness ==
    /\ last.type = "SET_PAGE"
    /\ last.payload = "roles"
    /\ uiState.currentPage = "roles"
    /\ renderPage(uiState) = "Dashboard"
    /\ uiState.theme = "dark"
    /\ Highlighted(uiState) = {5}

SubmitStep == last'.type \in {"handleSubmit", "LOGIN"}

\* C14: a submit with email and password both non-empty signs in; a submit
\* with either one empty records the required-field errors and leaves
\* isAuthenticated false and user null; nothing else signs in; in every state
\* isAuthenticated holds exactly when user is non-null; LOGOUT signs out; and
\* LOGIN and LOGOUT leave contentTypes and entries as they were.
C14_LoginFlow ==
    /\ [](appState.isAuthenticated <=> appState.user # NullUser)
    /\ [][/\ (SubmitStep /\ (loginPage.email = "" \/ loginPage.password = "")) =>
                /\ appState' = appState
                /\ ~appState'.isAuthenticated /\ appState'.user = NullUser
                /\ (loginPage.email = "") = (loginPage'.errors.email # Undefined)
                /\ (loginPage.password = "") = (loginPage'.errors.password # Undefined)
          /\ (SubmitStep /\ loginPage.email # "" /\ loginPage.password # "") =>
                /\ appState'.isAuthenticated
                /\ appState'.user.email = loginPage.email
          /\ (~appState.isAuthenticated /\ appState'.isAuthenticated) =>
                SubmitStep /\ loginPage.email # "" /\ loginPage.password # ""
          /\ last'.type = "LOGOUT" =>
                ~appState'.isAuthenticated /\ appState'.user = NullUser
          /\ last'.type \in {"LOGIN", "LOGOUT"} =>
                /\ appState'.contentTypes = appState.contentTypes
                /\ appState'.entries = appState.entries]_vars

C14_Witness ==
    /\ last.type = "LOGIN"
    /\ appState.isAuthenticated
    /\ appState.user.email = "admin@example.com"
    /\ Len(appState.contentTypes) = 1
    /\ Len(appState.entries) = 1

\* C12: while an edit form is opened, filled in and closed without Save, the
\* store's contentTypes, the Field objects of the edited schema included, stay
\* what they were before the form was opened.
C12_UnsavedFormLeavesStore ==
    ViewTypes(appState, heap) = ViewTypes(InitialAppState(T0), SeedHeap)

SavedStep == last.type \in {"ADD_CONTENT_TYPE", "UPDATE_CONTENT_TYPE"}

NamesNonEmpty(t) == t.name # "" /\ t.singularName # "" /\ t.pluralName # ""

FieldIdsDistinct(t) ==
    \A i, j \in 1..Len(t.fields) : i # j => t.fields[i].id # t.fields[j].id

\* C13: after every Save each schema of the store has a non-empty name,
\* singularName and pluralName, and the field ids of each schema are pairwise
\* distinct.
C13_SavedSchemasWellFormed ==
    SavedStep =>
        \A i \in 1..Len(Types) :
            /\ NamesNonEmpty(Types[i])
            /\ FieldIdsDistinct(ViewType(Types[i], heap))

\* The second half of C13 alone: the field ids of each saved schema are
\* pairwise distinct.
SavedFieldIdsDistinct ==
    SavedStep => \A i \in 1..Len(Types) : FieldIdsDistinct(ViewType(Types[i], heap))

\* C15: a Save that follows the 'New Content Type' button appends one schema
\* and replaces none, whatever was opened, closed or saved before.
C15_NewThenSaveAppends ==
    [][(last.type = "openNew" /\ isModalOpen /\ ~isModalOpen'
        /\ last'.type \in {"ADD_CONTENT_TYPE", "UPDATE_CONTENT_TYPE"}) =>
            /\ last'.type = "ADD_CONTENT_TYPE"
            /\ Len(appState'.contentTypes) = Len(Types) + 1
            /\ SubSeq(appState'.contentTypes, 1, Len(Types)) = Types]_vars

====
